---- MODULE Spec2Model ----
(***************************************************************************)
(* Booking reservation and pricing engine of the vehicle-rental backend:   *)
(* the Booking and Payment documents, the handlers of bookingController,   *)
(* paymentController and adminController that read and write them, and the *)
(* price calculation.                                                      *)
(*                                                                         *)
(* Time is counted in minutes.  Money is counted in 1/10000 of a rupee, so *)
(* that percentages of percentages of whole rupees stay whole numbers and  *)
(* the arithmetic of the handlers is exact.  Fields of the documents that  *)
(* no property below reads (locations, notes, timestamps, gateway ids) are *)
(* left out.  Transaction documents are written and never read back by     *)
(* these handlers: a handler's run carries the ones it creates.            *)
(***************************************************************************)
EXTENDS Integers, FiniteSets, Sequences, TLC

VARIABLES
    bookings,   \* Booking collection: booking id -> document
    payments,   \* Payment collection: payment id -> document
    reqs,       \* createBooking calls in flight: request id -> position and locals
    quote,      \* calculateBookingPrice: the request body and the response
    promoUse,   \* PromoCode collection: code -> usedCount
    avail,      \* the availability query: the request and the response
    orders,     \* createPaymentOrder calls in flight: call id -> position and locals
    elapsed     \* the days that have passed, counted round

vars == <<bookings, payments, reqs, quote, promoUse, avail, orders, elapsed>>

----------------------------------------------------------------------------
(* Units *)

Rupee == 100 * 100
MinutesPerHour == 60
Hours(h) == h * MinutesPerHour

----------------------------------------------------------------------------
(* Documents *)

\* bookingSchema.status enum
BookingStatuses ==
    {"pending_payment", "confirmed", "checked_out", "in_progress", "completed",
     "cancelled", "no_show", "driver_unavailable", "refunded"}

\* The statuses the reservation data model calls active.
ActiveStatuses == {"pending_payment", "confirmed", "checked_out", "in_progress"}

\* The terminal statuses of the reservation state machine.
TerminalStatuses == {"cancelled", "completed", "refunded"}

\* paymentSchema.status enum
PaymentStatuses == {"initiated", "success", "failed", "refunded"}

Roles == {"customer", "vendor", "admin"}

\* booking.cancellation when it was never set
NoCancellation == [set |-> FALSE, by |-> "none", hasFee |-> FALSE, fee |-> 0]

\* booking.penalties when it was never set, or set from a body without
\* penalties (penalties || {}).
NoPenalties == [set |-> FALSE, lateFee |-> 0, damageDeduction |-> 0]

\* booking.depositRefund when it was never set: the schema default gives it
\* the status pending, and it has no amount.
NoDepositRefund == [set |-> FALSE, status |-> "pending", amount |-> 0]

BookingIds == {"b1", "b2"}
PaymentIds == {"p1", "p2"}
VehicleIds == {"v1", "v2"}

\* The codes of the stored promotions, none of them used yet (usedCount
\* defaults to 0).
PromoCodeIds == {"SAVE10", "HALF", "FLAT300", "GIFT", "OFF"}
NoPromoUse == [c \in PromoCodeIds |-> 0]

\* Ids that name no document.
NoSuchBooking == "b0"
NoSuchPayment == "p0"
NoSuchVehicle == "v0"

\* The authenticated principals: the customer and the vendor owning every
\* stored booking, a second customer, a second vendor and an admin.
Principals ==
    {[role |-> "customer", id |-> "c1"], [role |-> "customer", id |-> "c2"],
     [role |-> "vendor", id |-> "n1"], [role |-> "vendor", id |-> "n2"],
     [role |-> "admin", id |-> "a1"]}

----------------------------------------------------------------------------
(* The stored reservations *)

\* The day of the stored reservations, late enough for the clock to stand
\* three days before a pickup.
DayOffset == 4
DayStart == DayOffset * 24 * MinutesPerHour
At(h, m) == DayStart + Hours(h) + m

\* The windows of the stored reservations and of the requests.
WindowA  == [s |-> At(10, 0), e |-> At(12, 0)]
WindowA1 == [s |-> At(10, 0), e |-> At(12, 1)]
WindowB  == [s |-> At(12, 0), e |-> At(14, 0)]

\* The Vehicle documents, as far as reservations read them: v1 is active and
\* its vendor has blocked it from 13:00 to 15:00 of the day; v2 has been
\* deactivated and carries no block.
Vehicles ==
    [v \in VehicleIds |->
        [isActive |-> v = "v1",
         availabilityBlocks |->
            IF v = "v1"
            THEN {[start |-> At(13, 0), end |-> At(15, 0)]}
            ELSE {}]]

\* The instants at which a handler may read the clock.
Clock ==
    {At(10, 0) - Hours(72), At(10, 0) - Hours(48), At(10, 0) - Hours(48) + 1,
     At(10, 0) - Hours(30), At(10, 0) - Hours(24), At(10, 0) - Hours(24) + 1,
     At(10, 0) - Hours(10), At(11, 0)}

\* priceBreakdown of the stored reservations: 3 days at 1000 without deposit,
\* and a discounted week at 1000 with a deposit of 2000.
PriceOf(b) ==
    IF b = "b1"
    THEN [baseAmount |-> 3000 * Rupee, taxes |-> 540 * Rupee, deposit |-> 0,
          totalPayable |-> 3540 * Rupee]
    ELSE [baseAmount |-> 6300 * Rupee, taxes |-> 1134 * Rupee,
          deposit |-> 2000 * Rupee, totalPayable |-> 9434 * Rupee]

\* A handler's response: the HTTP status, the kind of failure its message
\* names, and the amounts a cancellation returns.
Reply(st, err) ==
    [status |-> st, error |-> err, fee |-> 0, refund |-> 0, finalAmount |-> 0]

\* What running a handler yields: the collections as it leaves them, its
\* response, and the Transaction documents it created, in order.
Result(bk, pm, rp) ==
    [bookings |-> bk, payments |-> pm, reply |-> rp, created |-> <<>>]

\* A Booking document as `new Booking({...})` builds it (schema defaults).
NewBooking(b, v, w, st, canc) ==
    [vehicle |-> v, customer |-> "c1", vendor |-> "n1",
     s |-> w.s, e |-> w.e,
     priceBreakdown |-> PriceOf(b),
     status |-> st,
     cancellation |-> canc,
     penalties |-> NoPenalties,
     depositRefund |-> NoDepositRefund,
     payment |-> "none"]

\* A Payment document slot that holds no document yet.
NoPayment ==
    [exists |-> FALSE, booking |-> "none", user |-> "none", vendor |-> "none",
     amount |-> 0, status |-> "initiated", refundedAmount |-> 0]

\* No price request has been made.
NoQuote ==
    [pc |-> "none", hasFields |-> FALSE, found |-> FALSE, pricing |-> "none",
     duration |-> 0, bookingType |-> "none", driverRequired |-> FALSE,
     promoCode |-> "none", now |-> 0, reply |-> "none"]

\* The createBooking calls that may be in flight together.
RequestIds == {"r1", "r2"}

\* A createBooking call: where it stands, the vehicle and the window of its
\* body, whether it has created the new_booking Notification of its
\* reservation, and its response once it has answered.
IdleRequest ==
    [pc |-> "idle", vehicle |-> "none", s |-> 0, e |-> 0, promoCode |-> "none",
     notified |-> FALSE, reply |-> Reply(0, "none")]

\* No availability query has been made.
NoAvail ==
    [pc |-> "none", handler |-> "none", vehicle |-> "none", s |-> 0, e |-> 0,
     status |-> 0, available |-> FALSE]

\* The createPaymentOrder calls that may be in flight together.
OrderIds == {"o1", "o2"}

\* A createPaymentOrder call: where it stands, the reservation, the caller and
\* the amount of its request, and its response once it has answered.
IdleOrder ==
    [pc |-> "idle", booking |-> "none", user |-> "none", amount |-> 0,
     reply |-> Reply(0, "none")]

\* The interval test of the availability query (the $or clause).
Overlaps(s1, e1, s2, e2) == s1 < e2 /\ e1 > s2

\* Two stored reservations of one vehicle, both active, with intersecting windows.
ActiveOverlap(bk, x, y) ==
    /\ x # y
    /\ bk[x].vehicle = bk[y].vehicle
    /\ bk[x].status \in ActiveStatuses
    /\ bk[y].status \in ActiveStatuses
    /\ Overlaps(bk[x].s, bk[x].e, bk[y].s, bk[y].e)

\* A cancellation left by a customer who cancelled two days ahead or more.
EarlyCancellation == [set |-> TRUE, by |-> "customer", hasFee |-> TRUE, fee |-> 0]

\* The store holds two reservations of customer c1 with vendor n1.  Requests
\* address b1, which is still unpaid or was cancelled ahead of time; b2 is
\* the other reservation on the calendar, in any status.  No two active
\* reservations of one vehicle intersect.
InitBookings ==
    \E w1 \in {WindowA, WindowA1} : \E v2 \in VehicleIds :
    \E st1 \in {"pending_payment", "cancelled"} : \E st2 \in BookingStatuses :
        /\ bookings =
             [b \in BookingIds |->
                IF b = "b1"
                THEN NewBooking(b, "v1", w1, st1,
                        IF st1 = "cancelled" THEN EarlyCancellation ELSE NoCancellation)
                ELSE NewBooking(b, v2, WindowB, st2,
                        IF st2 = "cancelled" THEN EarlyCancellation ELSE NoCancellation)]
        /\ ~ ActiveOverlap(bookings, "b1", "b2")

Init ==
    /\ InitBookings
    /\ payments = [p \in PaymentIds |-> NoPayment]
    /\ reqs = [r \in RequestIds |-> IdleRequest]
    /\ quote = NoQuote
    /\ promoUse = NoPromoUse
    /\ avail = NoAvail
    /\ orders = [o \in OrderIds |-> IdleOrder]
    /\ elapsed = 0

----------------------------------------------------------------------------
(* Handlers.  Each handler is a function of the stored collections and of   *)
(* its request, yielding the collections as it leaves them and its         *)
(* response; the action of the same name stores what it yields.            *)

Fail(st, err) == Result(bookings, payments, Reply(st, err))

Exists(b) == b \in BookingIds

\* Vendor.findOne({ user }) finds a profile for a vendor user only; the ids of
\* a vendor user and of its profile are identified.
VendorProfileOf(pr) == IF pr.role = "vendor" THEN pr.id ELSE "none"

\* requireRole(roles): the role gate of a route.
RoleAllowed(pr, roles) == pr.role \in roles

----------------------------------------------------------------------------
(* bookingController: status update, cancel, complete *)

\* updateBookingStatus, the writes of lines 440-458 on the loaded document.
StatusWritten(doc, status, role) ==
    [doc EXCEPT
       !.status = status,
       !.cancellation =
           IF status = "cancelled"
           THEN [set |-> TRUE, by |-> role, hasFee |-> FALSE, fee |-> 0]
           ELSE @,
       !.depositRefund =
           IF status = "completed" /\ doc.priceBreakdown.deposit > 0
           THEN [set |-> TRUE, status |-> "pending",
                 amount |-> doc.priceBreakdown.deposit]
           ELSE @]

\* A handler that awaits Notification.create after booking.save(), inside its
\* try block: when the creation throws (notifyOk false) the catch block answers
\* 500, and what was saved stays saved.
Notified(run, notifyOk) ==
    IF notifyOk THEN run ELSE [run EXCEPT !.reply = Reply(500, "InternalError")]

\* PATCH /bookings/:id/status (vendor or admin).  A status outside the schema's
\* enum fails validation in save(), which the handler answers with 500.
UpdateBookingStatusRun(b, pr, status, notifyOk) ==
    IF ~ RoleAllowed(pr, {"vendor", "admin"}) THEN Fail(403, "AccessDenied")
    ELSE IF ~ Exists(b) THEN Fail(404, "NotFound")
    ELSE IF pr.role = "vendor" /\ bookings[b].vendor # VendorProfileOf(pr)
    THEN Fail(403, "AccessDenied")
    ELSE IF status \notin BookingStatuses THEN Fail(500, "InternalError")
    ELSE Notified(Result([bookings EXCEPT ![b] = StatusWritten(@, status, pr.role)],
                         payments, Reply(200, "none")),
                  notifyOk)

UpdateBookingStatus(b, pr, status, notifyOk) ==
    LET run == UpdateBookingStatusRun(b, pr, status, notifyOk)
    IN  /\ bookings' = run.bookings
        /\ payments' = run.payments
        /\ UNCHANGED <<reqs, quote, promoUse, avail, orders, elapsed>>

\* The cancellation tiers of cancelBooking, in hours until pickup.
HalfFeeBelowHours == 24
QuarterFeeBelowHours == 48

\* CancellationFee with the tiers closed at their upper ends (<= for <).
CancellationFeeInclusive(baseAmount, pickup, now) ==
    IF pickup - now <= Hours(HalfFeeBelowHours) THEN baseAmount \div 2
    ELSE IF pickup - now <= Hours(QuarterFeeBelowHours) THEN baseAmount \div 4
    ELSE 0

\* cancelBooking lines 515-525: the fee for cancelling at `now` a reservation
\* picked up at `pickup`.  hoursUntilPickup < h is minutes < h * 60; the stored
\* amounts are whole multiples of 4, so the halves and quarters are exact.
CancellationFee(baseAmount, pickup, now) ==
    IF pickup - now < Hours(HalfFeeBelowHours) THEN baseAmount \div 2
    ELSE IF pickup - now < Hours(QuarterFeeBelowHours) THEN baseAmount \div 4
    ELSE 0

\* CancellableStatuses with the finished rentals admitted as well.
CancellableStatusesLax == {"pending_payment", "confirmed", "completed"}

\* The statuses both cancel handlers accept.
CancellableStatuses == {"pending_payment", "confirmed"}

\* POST /bookings/:id/cancel (any authenticated principal).
CancelBookingRun(b, pr, now, notifyOk) ==
    IF ~ Exists(b) THEN Fail(404, "NotFound")
    ELSE IF pr.role = "customer" /\ bookings[b].customer # pr.id
    THEN Fail(403, "AccessDenied")
    ELSE IF bookings[b].status \notin CancellableStatuses
    THEN Fail(400, "InvalidStateTransition")
    ELSE LET fee == CancellationFee(bookings[b].priceBreakdown.baseAmount,
                                    bookings[b].s, now)
         IN  Notified(
                 Result([bookings EXCEPT
                           ![b].status = "cancelled",
                           ![b].cancellation =
                               [set |-> TRUE, by |-> pr.role, hasFee |-> TRUE,
                                fee |-> fee]],
                        payments,
                        [Reply(200, "none") EXCEPT
                           !.fee = fee,
                           !.refund =
                               bookings[b].priceBreakdown.totalPayable - fee]),
                 notifyOk)

CancelBooking(b, pr, now, notifyOk) ==
    LET run == CancelBookingRun(b, pr, now, notifyOk)
    IN  /\ bookings' = run.bookings
        /\ payments' = run.payments
        /\ UNCHANGED <<reqs, quote, promoUse, avail, orders, elapsed>>

\* A Transaction document: its type, the booking and the payment it refers
\* to, and its amount.
Transaction(type, b, p, amount) ==
    [type |-> type, relatedBooking |-> b, referenceId |-> p, amount |-> amount]

\* SettlementTransactions with a transaction for every completion.
SettlementTransactionsAlways(b, totalPayable, finalAmount) ==
    <<Transaction("adjustment", b, "none", finalAmount - totalPayable)>>

\* completeBooking lines 604-613: the transaction of the final settlement.
SettlementTransactions(b, totalPayable, finalAmount) ==
    IF finalAmount # totalPayable
    THEN <<Transaction("adjustment", b, "none", finalAmount - totalPayable)>>
    ELSE <<>>

\* CompleteBookingRun with the penalties added to the stored total.
CompleteBookingRunRepriced(b, pr, penalties) ==
    IF ~ RoleAllowed(pr, {"vendor", "admin"}) THEN Fail(403, "AccessDenied")
    ELSE IF ~ Exists(b) THEN Fail(404, "NotFound")
    ELSE IF bookings[b].vendor # VendorProfileOf(pr) THEN Fail(403, "AccessDenied")
    ELSE IF bookings[b].status # "in_progress"
    THEN Fail(400, "InvalidStateTransition")
    ELSE LET totalPayable == bookings[b].priceBreakdown.totalPayable
             finalAmount ==
                 totalPayable + penalties.lateFee + penalties.damageDeduction
         IN  Result([bookings EXCEPT ![b].status = "completed",
                                     ![b].penalties = penalties,
                                     ![b].priceBreakdown.totalPayable = finalAmount],
                    payments,
                    [Reply(200, "none") EXCEPT !.finalAmount = finalAmount])

\* POST /bookings/:id/complete (vendor or admin); body { penalties }.  The
\* handler looks up the caller's vendor profile, which an admin does not have.
\* An absent fee counts as 0 (penalties?.lateFee || 0).
CompleteBookingRun(b, pr, penalties) ==
    IF ~ RoleAllowed(pr, {"vendor", "admin"}) THEN Fail(403, "AccessDenied")
    ELSE IF ~ Exists(b) THEN Fail(404, "NotFound")
    ELSE IF bookings[b].vendor # VendorProfileOf(pr) THEN Fail(403, "AccessDenied")
    ELSE IF bookings[b].status # "in_progress"
    THEN Fail(400, "InvalidStateTransition")
    ELSE LET totalPayable == bookings[b].priceBreakdown.totalPayable
             finalAmount ==
                 totalPayable + penalties.lateFee + penalties.damageDeduction
         IN  [Result([bookings EXCEPT ![b].status = "completed",
                                      ![b].penalties = penalties],
                     payments,
                     [Reply(200, "none") EXCEPT !.finalAmount = finalAmount])
                EXCEPT !.created =
                    SettlementTransactions(b, totalPayable, finalAmount)]

CompleteBooking(b, pr, penalties) ==
    LET run == CompleteBookingRun(b, pr, penalties)
    IN  /\ bookings' = run.bookings
        /\ payments' = run.payments
        /\ UNCHANGED <<reqs, quote, promoUse, avail, orders, elapsed>>

----------------------------------------------------------------------------
(* adminController: status update, cancel *)

\* PATCH /admin/bookings/:id/status (admin).
AdminUpdateBookingStatusRun(b, pr, status, notifyOk) ==
    IF ~ RoleAllowed(pr, {"admin"}) THEN Fail(403, "AccessDenied")
    ELSE IF ~ Exists(b) THEN Fail(404, "NotFound")
    ELSE IF status \notin BookingStatuses THEN Fail(500, "InternalError")
    ELSE Notified(
             Result([bookings EXCEPT
                       ![b].status = status,
                       ![b].cancellation =
                           IF status = "cancelled"
                           THEN [set |-> TRUE, by |-> "admin", hasFee |-> FALSE,
                                 fee |-> 0]
                           ELSE @],
                    payments, Reply(200, "none")),
             notifyOk)

AdminUpdateBookingStatus(b, pr, status, notifyOk) ==
    LET run == AdminUpdateBookingStatusRun(b, pr, status, notifyOk)
    IN  /\ bookings' = run.bookings
        /\ payments' = run.payments
        /\ UNCHANGED <<reqs, quote, promoUse, avail, orders, elapsed>>

\* POST /admin/bookings/:id/cancel (admin); body { reason, refundAmount },
\* refundAmount 0 standing for an absent one.
CancelBookingAdminRun(b, pr, hasReason, refundAmount, notifyOk) ==
    IF ~ RoleAllowed(pr, {"admin"}) THEN Fail(403, "AccessDenied")
    ELSE IF ~ hasReason THEN Fail(400, "ValidationError")
    ELSE IF ~ Exists(b) THEN Fail(404, "NotFound")
    ELSE IF bookings[b].status \notin CancellableStatuses
    THEN Fail(400, "InvalidStateTransition")
    ELSE LET p == bookings[b].payment
         IN  Notified(
                 Result([bookings EXCEPT
                           ![b].status = "cancelled",
                           ![b].cancellation =
                               [set |-> TRUE, by |-> "admin", hasFee |-> TRUE,
                                fee |-> 0]],
                        IF p # "none" /\ payments[p].status = "success"
                           /\ refundAmount > 0
                        THEN [payments EXCEPT ![p].refundedAmount = refundAmount]
                        ELSE payments,
                        [Reply(200, "none") EXCEPT !.refund = refundAmount]),
                 notifyOk)

CancelBookingAdmin(b, pr, hasReason, refundAmount, notifyOk) ==
    LET run == CancelBookingAdminRun(b, pr, hasReason, refundAmount, notifyOk)
    IN  /\ bookings' = run.bookings
        /\ payments' = run.payments
        /\ UNCHANGED <<reqs, quote, promoUse, avail, orders, elapsed>>

----------------------------------------------------------------------------
(* paymentController: order creation, verification, webhook *)

\* Payment.findOne({ booking }): the payments stored for a booking.
PaymentsOf(b) == {p \in PaymentIds : payments[p].exists /\ payments[p].booking = b}

FreePaymentIds == {p \in PaymentIds : ~ payments[p].exists}

\* The largest difference createPaymentOrder accepts between the amount asked
\* and the booking's total, in rupees.
AmountTolerance == 1

Abs(x) == IF x < 0 THEN 0 - x ELSE x

\* POST /payments/create-order (customer); body { bookingId, amount }, amount 0
\* standing for an absent one.  orderOk is the gateway's answer to
\* createRazorpayOrder.
CreatePaymentOrderRun(b, pr, amount, orderOk) ==
    IF ~ RoleAllowed(pr, {"customer"}) THEN Fail(403, "AccessDenied")
    ELSE IF amount = 0 THEN Fail(400, "ValidationError")
    ELSE IF ~ Exists(b) \/ bookings[b].customer # pr.id THEN Fail(404, "NotFound")
    ELSE IF PaymentsOf(b) # {} THEN Fail(400, "PaymentExists")
    ELSE IF Abs(amount - bookings[b].priceBreakdown.totalPayable)
              > AmountTolerance * Rupee
    THEN Fail(400, "AmountMismatch")
    ELSE IF ~ orderOk THEN Fail(400, "PaymentProviderError")
    ELSE LET p == CHOOSE q \in FreePaymentIds : TRUE
         IN  Result([bookings EXCEPT ![b].payment = p],
                    [payments EXCEPT
                       ![p] = [exists |-> TRUE, booking |-> b, user |-> pr.id,
                               vendor |-> bookings[b].vendor, amount |-> amount,
                               status |-> "initiated", refundedAmount |-> 0]],
                    Reply(200, "none"))

CreatePaymentOrder(b, pr, amount, orderOk) ==
    LET run == CreatePaymentOrderRun(b, pr, amount, orderOk)
    IN  /\ FreePaymentIds # {}
        /\ bookings' = run.bookings
        /\ payments' = run.payments
        /\ UNCHANGED <<reqs, quote, promoUse, avail, orders, elapsed>>

\* What the gateway reports for a payment: the lookup fails, or the payment is
\* captured, or it is in another state.
GatewayAnswers == {"error", "captured", "failed"}

\* POST /payments/verify (customer); sigValid is verifyPaymentSignature's answer,
\* gw the gateway's report (getPaymentDetails of config/razorpay.js).
VerifyPaymentRun(p, pr, sigValid, gw) ==
    IF ~ RoleAllowed(pr, {"customer"}) THEN Fail(403, "AccessDenied")
    ELSE IF ~ sigValid THEN Fail(400, "InvalidSignature")
    ELSE IF ~ (p \in PaymentIds /\ payments[p].exists) THEN Fail(404, "NotFound")
    ELSE IF payments[p].user # pr.id THEN Fail(403, "AccessDenied")
    ELSE IF gw = "error" THEN Fail(400, "PaymentProviderError")
    ELSE LET b == payments[p].booking
             paid == gw = "captured"
         IN  [Result([bookings EXCEPT
                        ![b].status =
                            IF paid THEN "confirmed" ELSE "pending_payment"],
                     [payments EXCEPT
                        ![p].status = IF paid THEN "success" ELSE "failed"],
                     Reply(200, "none"))
                EXCEPT !.created =
                    IF paid
                    THEN <<Transaction("payment", b, p, payments[p].amount)>>
                    ELSE <<>>]

VerifyPayment(p, pr, sigValid, gw) ==
    LET run == VerifyPaymentRun(p, pr, sigValid, gw)
    IN  /\ bookings' = run.bookings
        /\ payments' = run.payments
        /\ UNCHANGED <<reqs, quote, promoUse, avail, orders, elapsed>>

\* POST /payments/webhook.  The handler computes the expected signature with
\* crypto.createHmac, and the module binds no `crypto`: the call throws before
\* any event is dispatched and the handler answers 500.
HandlePaymentWebhookRun(event) == Fail(500, "InternalError")

HandlePaymentWebhook(event) ==
    LET run == HandlePaymentWebhookRun(event)
    IN  /\ bookings' = run.bookings
        /\ payments' = run.payments
        /\ UNCHANGED <<reqs, quote, promoUse, avail, orders, elapsed>>

WebhookEvents == {"payment.captured", "payment.failed", "refund.processed"}

\* POST /payments/:id/refund (vendor or admin); body { amount }, amount 0
\* standing for an absent one (amount || payment.amount).  refundOk is the
\* gateway's answer to createRefund (config/razorpay.js), which on success
\* reports the amount it was asked to refund.
InitiateRefundRun(p, pr, amount, refundOk) ==
    IF ~ RoleAllowed(pr, {"vendor", "admin"}) THEN Fail(403, "AccessDenied")
    ELSE IF ~ (p \in PaymentIds /\ payments[p].exists) THEN Fail(404, "NotFound")
    ELSE IF pr.role = "vendor" /\ payments[p].vendor # VendorProfileOf(pr)
    THEN Fail(403, "AccessDenied")
    ELSE IF payments[p].status # "success" THEN Fail(400, "NotRefundable")
    ELSE IF payments[p].refundedAmount # 0
            /\ payments[p].amount - payments[p].refundedAmount <= 0
    THEN Fail(400, "NotRefundable")
    ELSE IF ~ refundOk THEN Fail(400, "PaymentProviderError")
    ELSE LET refundAmount == IF amount = 0 THEN payments[p].amount ELSE amount
             newRefundedAmount == payments[p].refundedAmount + refundAmount
             full == newRefundedAmount >= payments[p].amount
             b == payments[p].booking
         IN  [Result(IF full THEN [bookings EXCEPT ![b].status = "refunded"]
                     ELSE bookings,
                     [payments EXCEPT
                        ![p].refundedAmount = newRefundedAmount,
                        ![p].status = IF full THEN "refunded" ELSE @],
                     [Reply(200, "none") EXCEPT !.refund = refundAmount])
                EXCEPT !.created = <<Transaction("refund", b, p, 0 - refundAmount)>>]

\* How many times its amount the refunds of one payment are followed.
MaxRefundRounds == 2

\* No payment is refunded beyond the rounds that are followed.
RefundsFollowed(pm) ==
    \A q \in PaymentIds : pm[q].refundedAmount <= MaxRefundRounds * pm[q].amount

InitiateRefund(p, pr, amount, refundOk) ==
    LET run == InitiateRefundRun(p, pr, amount, refundOk)
    IN  /\ RefundsFollowed(run.payments)
        /\ bookings' = run.bookings
        /\ payments' = run.payments
        /\ UNCHANGED <<reqs, quote, promoUse, avail, orders, elapsed>>

\* POST /admin/payments/:id/refund (admin); body { amount, reason }.
InitiateAdminRefundRun(p, pr, hasReason, amount, refundOk) ==
    IF ~ RoleAllowed(pr, {"admin"}) THEN Fail(403, "AccessDenied")
    ELSE IF ~ hasReason THEN Fail(400, "ValidationError")
    ELSE IF ~ (p \in PaymentIds /\ payments[p].exists) THEN Fail(404, "NotFound")
    ELSE IF payments[p].status # "success" THEN Fail(400, "NotRefundable")
    ELSE IF ~ refundOk THEN Fail(400, "PaymentProviderError")
    ELSE LET refundAmount == IF amount = 0 THEN payments[p].amount ELSE amount
             newRefundedAmount == payments[p].refundedAmount + refundAmount
             full == newRefundedAmount >= payments[p].amount
             b == payments[p].booking
         IN  [Result(IF full THEN [bookings EXCEPT ![b].status = "refunded"]
                     ELSE bookings,
                     [payments EXCEPT
                        ![p].refundedAmount = newRefundedAmount,
                        ![p].status = IF full THEN "refunded" ELSE @],
                     [Reply(200, "none") EXCEPT !.refund = refundAmount])
                EXCEPT !.created = <<Transaction("refund", b, p, 0 - refundAmount)>>]

InitiateAdminRefund(p, pr, hasReason, amount, refundOk) ==
    LET run == InitiateAdminRefundRun(p, pr, hasReason, amount, refundOk)
    IN  /\ RefundsFollowed(run.payments)
        /\ bookings' = run.bookings
        /\ payments' = run.payments
        /\ UNCHANGED <<reqs, quote, promoUse, avail, orders, elapsed>>

----------------------------------------------------------------------------
(* The reservation lifecycle *)

\* The reservation the requests address, and the payments they name.
Addressed == {"b1"}
BookingInputs == Addressed
PaymentInputs == {"p1", NoSuchPayment}
StatusInputs == BookingStatuses \cup {"expired"}
AmountInputs(b) ==
    IF Exists(b)
    THEN {0, bookings[b].priceBreakdown.totalPayable,
          bookings[b].priceBreakdown.totalPayable + 2 * Rupee}
    ELSE {0}
RefundInputs(b) ==
    IF Exists(b)
    THEN {0, bookings[b].priceBreakdown.totalPayable,
          bookings[b].priceBreakdown.totalPayable \div 2}
    ELSE {0}

Next ==
    \/ \E b \in BookingInputs, pr \in Principals, st \in StatusInputs :
       \E notifyOk \in BOOLEAN :
          UpdateBookingStatus(b, pr, st, notifyOk)
    \/ \E b \in BookingInputs, pr \in Principals, now \in Clock :
       \E notifyOk \in BOOLEAN :
          CancelBooking(b, pr, now, notifyOk)
    \/ \E b \in BookingInputs, pr \in Principals :
          CompleteBooking(b, pr, NoPenalties)
    \/ \E b \in BookingInputs, pr \in Principals, st \in StatusInputs :
       \E notifyOk \in BOOLEAN :
          AdminUpdateBookingStatus(b, pr, st, notifyOk)
    \/ \E b \in BookingInputs, pr \in Principals, hasReason \in BOOLEAN :
       \E amt \in RefundInputs(b), notifyOk \in BOOLEAN :
          CancelBookingAdmin(b, pr, hasReason, amt, notifyOk)
    \/ \E b \in BookingInputs, pr \in Principals, orderOk \in BOOLEAN :
       \E amt \in AmountInputs(b) :
          CreatePaymentOrder(b, pr, amt, orderOk)
    \/ \E p \in PaymentInputs, pr \in Principals, sigValid \in BOOLEAN :
       \E gw \in GatewayAnswers :
          VerifyPayment(p, pr, sigValid, gw)
    \/ \E ev \in WebhookEvents : HandlePaymentWebhook(ev)

Spec == Init /\ [][Next]_vars

----------------------------------------------------------------------------
(* createPaymentOrder calls in flight together *)

\* createPaymentOrder lines 17-57: the checks of the handler, through
\* Payment.findOne({ booking }) and the comparison of the amount.  The handler
\* then awaits the gateway (createRazorpayOrder), and other calls run.
CreatePaymentOrderCheckRun(b, pr, amount) ==
    IF ~ RoleAllowed(pr, {"customer"}) THEN Reply(403, "AccessDenied")
    ELSE IF amount = 0 THEN Reply(400, "ValidationError")
    ELSE IF ~ Exists(b) \/ bookings[b].customer # pr.id THEN Reply(404, "NotFound")
    ELSE IF PaymentsOf(b) # {} THEN Reply(400, "PaymentExists")
    ELSE IF Abs(amount - bookings[b].priceBreakdown.totalPayable)
              > AmountTolerance * Rupee
    THEN Reply(400, "AmountMismatch")
    ELSE Reply(0, "none")

CreatePaymentOrderCheck(o, b, pr, amount) ==
    LET reply == CreatePaymentOrderCheckRun(b, pr, amount)
    IN  /\ orders[o].pc = "idle"
        /\ orders' =
             [orders EXCEPT
                ![o] = [pc |-> IF reply.status = 0 THEN "order" ELSE "done",
                        booking |-> b, user |-> pr.id, amount |-> amount,
                        reply |-> reply]]
        /\ UNCHANGED <<bookings, payments, reqs, quote, promoUse, avail, elapsed>>

\* createPaymentOrder lines 59-88: the gateway has answered; the Payment is
\* inserted (the index on booking is not unique) and the reservation is
\* pointed at it.
PaymentInserted(b, user, amount, orderOk) ==
    IF ~ orderOk THEN Fail(400, "PaymentProviderError")
    ELSE LET p == CHOOSE q \in FreePaymentIds : TRUE
         IN  Result([bookings EXCEPT ![b].payment = p],
                    [payments EXCEPT
                       ![p] = [exists |-> TRUE, booking |-> b, user |-> user,
                               vendor |-> bookings[b].vendor, amount |-> amount,
                               status |-> "initiated", refundedAmount |-> 0]],
                    Reply(200, "none"))

CreatePaymentOrderSave(o, orderOk) ==
    LET run == PaymentInserted(orders[o].booking, orders[o].user,
                               orders[o].amount, orderOk)
    IN  /\ orders[o].pc = "order"
        /\ FreePaymentIds # {}
        /\ bookings' = run.bookings
        /\ payments' = run.payments
        /\ orders' = [orders EXCEPT ![o].pc = "done", ![o].reply = run.reply]
        /\ UNCHANGED <<reqs, quote, promoUse, avail, elapsed>>

NextOrder ==
    \/ \E o \in OrderIds, b \in BookingInputs, pr \in Principals :
       \E amt \in AmountInputs(b) :
          CreatePaymentOrderCheck(o, b, pr, amt)
    \/ \E o \in OrderIds, orderOk \in BOOLEAN : CreatePaymentOrderSave(o, orderOk)

SpecOrder == Init /\ [][NextOrder]_vars

----------------------------------------------------------------------------
(* The unpaid reservation as time passes *)

\* The days that are told apart: the count of days starts again after them.
MaxElapsed == 2

\* A day passes.  The server registers no timer and no job: it runs a handler
\* only when a request arrives, so the passing of time changes nothing else.
Tick ==
    /\ elapsed' = (elapsed + 1) % (MaxElapsed + 1)
    /\ UNCHANGED <<bookings, payments, reqs, quote, promoUse, avail, orders>>

\* The requests that end an unpaid reservation, and the passing of time.
NextTimeout ==
    \/ \E b \in BookingInputs, pr \in Principals, now \in Clock :
       \E notifyOk \in BOOLEAN :
          CancelBooking(b, pr, now, notifyOk)
    \/ \E ev \in WebhookEvents : HandlePaymentWebhook(ev)
    \/ Tick

\* Requests may or may not arrive; time passes.
SpecTimeout == Init /\ [][NextTimeout]_vars /\ WF_vars(Tick)

----------------------------------------------------------------------------
(* Settlement: completion with penalties, and refunds *)

\* The reservation the settlement requests address: b2, which carries a
\* deposit.
SettledBookings == {"b2"}

\* The penalties a completeBooking body may carry: none, a late fee, a late
\* fee and a damage deduction, and two that cancel out.
PenaltyInputs ==
    {NoPenalties,
     [set |-> TRUE, lateFee |-> 500 * Rupee, damageDeduction |-> 0],
     [set |-> TRUE, lateFee |-> 500 * Rupee, damageDeduction |-> 1000 * Rupee],
     [set |-> TRUE, lateFee |-> 500 * Rupee, damageDeduction |-> 0 - 500 * Rupee]}

\* The statuses a settlement request may write, and the instants at which
\* its handler may read the clock: two days or more, and less than a day,
\* ahead of the pickup of b2.
SettleStatusInputs == {"confirmed", "in_progress", "completed", "cancelled", "expired"}
SettleClock == {At(10, 0) - Hours(72), At(11, 0)}

\* The amounts a refund body may carry: none, or half of the payment.
RefundAmountInputs(p) ==
    IF p \in PaymentIds /\ payments[p].exists
    THEN {0, payments[p].amount \div 2}
    ELSE {0}

\* b1 was cancelled ahead of time; b2 has just been created.
InitSettle ==
    /\ bookings =
         [b \in BookingIds |->
            IF b = "b1"
            THEN NewBooking(b, "v1", WindowA, "cancelled", EarlyCancellation)
            ELSE NewBooking(b, "v1", WindowB, "pending_payment", NoCancellation)]
    /\ payments = [p \in PaymentIds |-> NoPayment]
    /\ reqs = [r \in RequestIds |-> IdleRequest]
    /\ quote = NoQuote
    /\ promoUse = NoPromoUse
    /\ avail = NoAvail
    /\ orders = [o \in OrderIds |-> IdleOrder]
    /\ elapsed = 0

NextSettle ==
    \/ \E b \in SettledBookings, pr \in Principals, st \in SettleStatusInputs :
       \E notifyOk \in BOOLEAN :
          UpdateBookingStatus(b, pr, st, notifyOk)
    \/ \E b \in SettledBookings, pr \in Principals, now \in SettleClock :
       \E notifyOk \in BOOLEAN :
          CancelBooking(b, pr, now, notifyOk)
    \/ \E b \in SettledBookings, pr \in Principals, pen \in PenaltyInputs :
          CompleteBooking(b, pr, pen)
    \/ \E b \in SettledBookings, pr \in Principals, st \in SettleStatusInputs :
       \E notifyOk \in BOOLEAN :
          AdminUpdateBookingStatus(b, pr, st, notifyOk)
    \/ \E b \in SettledBookings, pr \in Principals, hasReason \in BOOLEAN :
       \E amt \in RefundInputs(b), notifyOk \in BOOLEAN :
          CancelBookingAdmin(b, pr, hasReason, amt, notifyOk)
    \/ \E b \in SettledBookings, pr \in Principals, orderOk \in BOOLEAN :
       \E amt \in AmountInputs(b) :
          CreatePaymentOrder(b, pr, amt, orderOk)
    \/ \E p \in PaymentInputs, pr \in Principals, sigValid \in BOOLEAN :
       \E gw \in GatewayAnswers :
          VerifyPayment(p, pr, sigValid, gw)
    \/ \E ev \in WebhookEvents : HandlePaymentWebhook(ev)
    \/ \E p \in PaymentInputs, pr \in Principals, refundOk \in BOOLEAN :
       \E amt \in RefundAmountInputs(p) :
          InitiateRefund(p, pr, amt, refundOk)
    \/ \E p \in PaymentInputs, pr \in Principals, hasReason \in BOOLEAN :
       \E amt \in RefundAmountInputs(p), refundOk \in BOOLEAN :
          InitiateAdminRefund(p, pr, hasReason, amt, refundOk)

SpecSettle == InitSettle /\ [][NextSettle]_vars

----------------------------------------------------------------------------
(* bookingController.createBooking, one step per awaited call *)

\* Booking.isVehicleAvailable: no stored booking of the vehicle in one of the
\* three statuses of the query intersects [start, end).
IsVehicleAvailable(vehicleId, start, end) ==
    ~ \E b \in BookingIds :
        /\ bookings[b].vehicle = vehicleId
        /\ bookings[b].status \in {"confirmed", "checked_out", "in_progress"}
        /\ bookings[b].s < end
        /\ bookings[b].e > start

\* createBooking lines 197-234: the body is validated, the vehicle is looked
\* up and the availability query is awaited.  hasFields tells whether the body
\* carries the vehicle id and both datetimes.
CreateBookingCheckRun(hasFields, v, w) ==
    IF ~ hasFields THEN Reply(400, "ValidationError")
    ELSE IF v \notin VehicleIds THEN Reply(404, "NotFound")
    ELSE IF ~ IsVehicleAvailable(v, w.s, w.e) THEN Reply(400, "VehicleUnavailable")
    ELSE Reply(0, "none")

CreateBookingCheck(r, hasFields, v, w, promoCode) ==
    LET reply == CreateBookingCheckRun(hasFields, v, w)
    IN  /\ reqs[r].pc = "idle"
        /\ reqs' =
             [reqs EXCEPT
                ![r] = [pc |-> IF reply.status = 0 THEN "price" ELSE "done",
                        vehicle |-> v, s |-> w.s, e |-> w.e,
                        promoCode |-> promoCode, notified |-> FALSE,
                        reply |-> reply]]
        /\ UNCHANGED <<bookings, payments, quote, promoUse, avail, orders, elapsed>>

\* CreateBookingPriceRun with the price computed and the document inserted.
CreateBookingPriceRunCreated(r) == Reply(201, "none")

\* createBooking lines 236-244 and 297-303: calculateBookingPrice is the route
\* handler (req, res), called here with the price request as `req` and without
\* `res`.  Reading req.body of that object throws in the handler's try block;
\* its catch block calls res.status on the missing `res` and throws again, so
\* the awaited promise rejects.  createBooking's own catch block answers 500,
\* and lines 246-296 (the insert, the notification, the 201 response) never run.
CreateBookingPriceRun(r) == Reply(500, "InternalError")

CreateBookingPrice(r) ==
    /\ reqs[r].pc = "price"
    /\ reqs' = [reqs EXCEPT ![r].pc = "done", ![r].reply = CreateBookingPriceRun(r)]
    /\ UNCHANGED <<bookings, payments, quote, promoUse, avail, orders, elapsed>>

\* The windows a createBooking body may carry: the two of the calendar, and
\* one that ends when it starts.
WindowEmpty == [s |-> At(12, 0), e |-> At(12, 0)]
RequestWindows == {WindowA, WindowB, WindowEmpty}
VehicleInputs == {"v1", "v2", NoSuchVehicle}

\* The promotion code of a createBooking body: absent, or a promotion that is
\* active, unlimited and valid for years.
RequestPromoCodes == {"none", "SAVE10"}

\* The store as any sequence of requests may have left it: both reservations
\* in any status, no two active ones of one vehicle intersecting.
InitCreate ==
    /\ \E w1 \in {WindowA, WindowA1} : \E v2 \in VehicleIds :
       \E st1, st2 \in BookingStatuses :
          /\ bookings =
               [b \in BookingIds |->
                  IF b = "b1"
                  THEN NewBooking(b, "v1", w1, st1,
                          IF st1 = "cancelled" THEN EarlyCancellation
                          ELSE NoCancellation)
                  ELSE NewBooking(b, v2, WindowB, st2,
                          IF st2 = "cancelled" THEN EarlyCancellation
                          ELSE NoCancellation)]
          /\ ~ ActiveOverlap(bookings, "b1", "b2")
    /\ payments = [p \in PaymentIds |-> NoPayment]
    /\ reqs = [r \in RequestIds |-> IdleRequest]
    /\ quote = NoQuote
    /\ promoUse = NoPromoUse
    /\ avail = NoAvail
    /\ orders = [o \in OrderIds |-> IdleOrder]
    /\ elapsed = 0

NextCreate ==
    \/ \E r \in RequestIds, hasFields \in BOOLEAN, v \in VehicleInputs :
       \E w \in RequestWindows, promoCode \in RequestPromoCodes :
          CreateBookingCheck(r, hasFields, v, w, promoCode)
    \/ \E r \in RequestIds : CreateBookingPrice(r)

SpecCreate == InitCreate /\ [][NextCreate]_vars

----------------------------------------------------------------------------
(* The availability queries *)

\* vehicle.availabilityBlocks.some(block => block.start <= end && block.end >= start)
HasAvailabilityBlock(v, start, end) ==
    \E block \in Vehicles[v].availabilityBlocks :
        block.start <= end /\ block.end >= start

\* An answer of an availability query.
Availability(st, available) == [status |-> st, available |-> available]

\* POST /bookings/check-availability; hasFields tells whether the body carries the
\* vehicle id and both datetimes.
GetBookingAvailabilityRun(hasFields, v, w) ==
    IF ~ hasFields THEN Availability(400, FALSE)
    ELSE IF v \notin VehicleIds THEN Availability(404, FALSE)
    ELSE Availability(200, /\ IsVehicleAvailable(v, w.s, w.e)
                           /\ ~ HasAvailabilityBlock(v, w.s, w.e))

\* GET /vehicles/:id/availability; hasFields tells whether the query carries
\* both dates.
GetVehicleAvailabilityRun(hasFields, v, w) ==
    IF v \notin VehicleIds THEN Availability(404, FALSE)
    ELSE IF ~ hasFields THEN Availability(400, FALSE)
    ELSE Availability(200, /\ IsVehicleAvailable(v, w.s, w.e)
                           /\ ~ HasAvailabilityBlock(v, w.s, w.e))

GetBookingAvailability(hasFields, v, w) ==
    LET answer == GetBookingAvailabilityRun(hasFields, v, w)
    IN  /\ avail.pc = "none"
        /\ avail' = [pc |-> "answered", handler |-> "getBookingAvailability",
                     vehicle |-> v, s |-> w.s, e |-> w.e,
                     status |-> answer.status, available |-> answer.available]
        /\ UNCHANGED <<bookings, payments, reqs, quote, promoUse, orders, elapsed>>

GetVehicleAvailability(hasFields, v, w) ==
    LET answer == GetVehicleAvailabilityRun(hasFields, v, w)
    IN  /\ avail.pc = "none"
        /\ avail' = [pc |-> "answered", handler |-> "getVehicleAvailability",
                     vehicle |-> v, s |-> w.s, e |-> w.e,
                     status |-> answer.status, available |-> answer.available]
        /\ UNCHANGED <<bookings, payments, reqs, quote, promoUse, orders, elapsed>>

\* The windows asked about: clear of the block of v1 (13:00 to 15:00), ending
\* when it starts, starting when it ends, and reaching into it.
QueryWindows ==
    {WindowA,
     [s |-> At(12, 0), e |-> At(13, 0)],
     [s |-> At(15, 0), e |-> At(16, 0)],
     [s |-> At(14, 0), e |-> At(16, 0)],
     WindowB}

NextAvail ==
    \/ \E hasFields \in BOOLEAN, v \in VehicleInputs, w \in QueryWindows :
          GetBookingAvailability(hasFields, v, w)
    \/ \E hasFields \in BOOLEAN, v \in VehicleInputs, w \in QueryWindows :
          GetVehicleAvailability(hasFields, v, w)

SpecAvail == InitCreate /\ [][NextAvail]_vars

----------------------------------------------------------------------------
(* bookingController.calculateBookingPrice *)

\* Math.ceil(a / b) and Math.round(x / b) * b for b > 0 (\div rounds down).
CeilDiv(a, b) == 0 - ((0 - a) \div b)
RoundTo(x, b) == ((x + b \div 2) \div b) * b

\* x * (p / 100).  Every amount that a percentage is taken of is a whole
\* number of paise, a multiple of 100 units, so the division is exact.
Percent(x, p) == (x \div 100) * p

\* JavaScript's a % b for b > 0: the remainder takes the sign of a.
JsRem(a, b) == IF a >= 0 THEN a % b ELSE 0 - ((0 - a) % b)

\* The hourly driver rate and the tax rate of the handler.
DriverRatePerHour == 100
TaxPercent == 18

\* The tiers of the base amount, in days.
MonthlyTierDays == 30
WeeklyTierDays == 7

\* The promotions stored (promoSchema), amounts in rupees; maxDiscountAmount 0
\* stands for an absent cap.
PromoCodes ==
    [SAVE10 |-> [discountType |-> "percentage", discountValue |-> 10,
                 maxDiscountAmount |-> 0, minBookingAmount |-> 0,
                 isActive |-> TRUE, validFrom |-> 0, validTill |-> At(0, 0) + Hours(24 * 365)],
     HALF |-> [discountType |-> "percentage", discountValue |-> 50,
               maxDiscountAmount |-> 500, minBookingAmount |-> 0,
               isActive |-> TRUE, validFrom |-> 0, validTill |-> At(0, 0)],
     FLAT300 |-> [discountType |-> "flat", discountValue |-> 300,
                  maxDiscountAmount |-> 0, minBookingAmount |-> 5000,
                  isActive |-> TRUE, validFrom |-> 0, validTill |-> At(0, 0) + Hours(24 * 365)],
     GIFT |-> [discountType |-> "flat", discountValue |-> 20000,
               maxDiscountAmount |-> 0, minBookingAmount |-> 0,
               isActive |-> TRUE, validFrom |-> 0, validTill |-> At(0, 0) + Hours(24 * 365)],
     OFF |-> [discountType |-> "flat", discountValue |-> 300,
              maxDiscountAmount |-> 0, minBookingAmount |-> 0,
              isActive |-> FALSE, validFrom |-> 0, validTill |-> At(0, 0) + Hours(24 * 365)]]

\* PromoCode.findOne({ code, isActive: true, validFrom <= now, validTill >= now }):
\* the promotions found, none or one.
FindPromo(code, now) ==
    {c \in DOMAIN PromoCodes :
        /\ c = code
        /\ PromoCodes[c].isActive
        /\ PromoCodes[c].validFrom <= now
        /\ PromoCodes[c].validTill >= now}

\* Lines 40-43: the billed hours and days of a duration in minutes.
DurationHours(minutes) == CeilDiv(minutes, MinutesPerHour)
DurationDays(minutes) == CeilDiv(DurationHours(minutes), 24)

\* BaseAmount with the weekly tier starting after the seventh day (> for >=).
BaseAmountLateWeekly(pricing, minutes) ==
    LET hours == DurationHours(minutes)
        days == DurationDays(minutes)
        tier ==
            IF days >= MonthlyTierDays /\ pricing.monthlyDiscountPercent > 0
            THEN LET monthlyRate == pricing.baseDaily * 30 * Rupee
                 IN  monthlyRate
                       - Percent(monthlyRate, pricing.monthlyDiscountPercent)
            ELSE IF days > WeeklyTierDays /\ pricing.weeklyDiscountPercent > 0
            THEN LET weeklyRate == pricing.baseDaily * 7 * Rupee
                 IN  weeklyRate
                       - Percent(weeklyRate, pricing.weeklyDiscountPercent)
            ELSE pricing.baseDaily * Rupee * days
    IN  IF JsRem(hours, 24) > 0 /\ pricing.extraHourCharge > 0
        THEN tier + pricing.extraHourCharge * Rupee * JsRem(hours, 24)
        ELSE tier

\* Lines 45-65: the base amount for a rate card (vehicle.pricing, in rupees)
\* and a duration in minutes.
BaseAmount(pricing, minutes) ==
    LET hours == DurationHours(minutes)
        days == DurationDays(minutes)
        tier ==
            IF days >= MonthlyTierDays /\ pricing.monthlyDiscountPercent > 0
            THEN LET monthlyRate == pricing.baseDaily * 30 * Rupee
                 IN  monthlyRate
                       - Percent(monthlyRate, pricing.monthlyDiscountPercent)
            ELSE IF days >= WeeklyTierDays /\ pricing.weeklyDiscountPercent > 0
            THEN LET weeklyRate == pricing.baseDaily * 7 * Rupee
                 IN  weeklyRate
                       - Percent(weeklyRate, pricing.weeklyDiscountPercent)
            ELSE pricing.baseDaily * Rupee * days
    IN  IF JsRem(hours, 24) > 0 /\ pricing.extraHourCharge > 0
        THEN tier + pricing.extraHourCharge * Rupee * JsRem(hours, 24)
        ELSE tier

\* DriverAmount by the booking type alone.
DriverAmountByTypeOnly(bookingType, driverRequired, minutes) ==
    IF bookingType = "with-driver"
    THEN DriverRatePerHour * Rupee * DurationHours(minutes)
    ELSE 0

\* Lines 67-72.
DriverAmount(bookingType, driverRequired, minutes) ==
    IF bookingType = "with-driver" \/ driverRequired
    THEN DriverRatePerHour * Rupee * DurationHours(minutes)
    ELSE 0

\* PromoDiscount with the cap of a percentage promotion left out.
PromoDiscountUncapped(baseAmount, found) ==
    IF found = {} THEN 0
    ELSE LET promo == PromoCodes[CHOOSE c \in found : TRUE]
         IN  IF promo.discountType = "percentage"
             THEN Percent(baseAmount, promo.discountValue)
             ELSE promo.discountValue * Rupee

\* Lines 80-103: the discount of the promotion found, before rounding.
PromoDiscount(baseAmount, found) ==
    IF found = {} THEN 0
    ELSE LET promo == PromoCodes[CHOOSE c \in found : TRUE]
         IN  IF promo.discountType = "percentage"
             THEN LET discount == Percent(baseAmount, promo.discountValue)
                  IN  IF promo.maxDiscountAmount # 0
                         /\ discount > promo.maxDiscountAmount * Rupee
                      THEN promo.maxDiscountAmount * Rupee
                      ELSE discount
             ELSE promo.discountValue * Rupee

\* PriceBreakdown with the deposit taxed like the base and driver amounts.
PriceBreakdownTaxedDeposit(pricing, minutes, bookingType, driverRequired, promoCode, now) ==
    LET baseAmount == BaseAmount(pricing, minutes)
        driverAmount == DriverAmount(bookingType, driverRequired, minutes)
        depositAmount == pricing.depositAmount * Rupee
        taxes == Percent(baseAmount + driverAmount + depositAmount, TaxPercent)
        discount ==
            IF promoCode = "none" THEN 0
            ELSE PromoDiscount(baseAmount, FindPromo(promoCode, now))
        totalPayable == baseAmount + driverAmount + taxes + depositAmount - discount
    IN  [baseAmount |-> baseAmount,
         driverAmount |-> driverAmount,
         taxes |-> RoundTo(taxes, Rupee),
         discount |-> RoundTo(discount, Rupee),
         deposit |-> depositAmount,
         totalPayable |-> RoundTo(totalPayable, Rupee),
         duration |-> [days |-> DurationDays(minutes),
                       hours |-> DurationHours(minutes)]]

\* Lines 40-118: the price breakdown of the response.
PriceBreakdown(pricing, minutes, bookingType, driverRequired, promoCode, now) ==
    LET baseAmount == BaseAmount(pricing, minutes)
        driverAmount == DriverAmount(bookingType, driverRequired, minutes)
        taxes == Percent(baseAmount + driverAmount, TaxPercent)
        depositAmount == pricing.depositAmount * Rupee
        discount ==
            IF promoCode = "none" THEN 0
            ELSE PromoDiscount(baseAmount, FindPromo(promoCode, now))
        totalPayable == baseAmount + driverAmount + taxes + depositAmount - discount
    IN  [baseAmount |-> baseAmount,
         driverAmount |-> driverAmount,
         taxes |-> RoundTo(taxes, Rupee),
         discount |-> RoundTo(discount, Rupee),
         deposit |-> depositAmount,
         totalPayable |-> RoundTo(totalPayable, Rupee),
         duration |-> [days |-> DurationDays(minutes),
                       hours |-> DurationHours(minutes)]]

\* The priceBreakdown of a response that carries none.
NoBreakdown ==
    [baseAmount |-> 0, driverAmount |-> 0, taxes |-> 0, discount |-> 0,
     deposit |-> 0, totalPayable |-> 0, duration |-> [days |-> 0, hours |-> 0]]

\* The handler run on a request body q: the body is validated (lines 22-27),
\* the vehicle is looked up (lines 29-35) and the breakdown is answered with
\* status 200 (lines 37-131).  Nothing else of the body is validated.
CalculateBookingPriceRun(q) ==
    IF ~ q.hasFields
    THEN [status |-> 400, error |-> "ValidationError", priceBreakdown |-> NoBreakdown]
    ELSE IF ~ q.found
    THEN [status |-> 404, error |-> "NotFound", priceBreakdown |-> NoBreakdown]
    ELSE [status |-> 200, error |-> "none",
          priceBreakdown |->
              PriceBreakdown(q.pricing, q.duration, q.bookingType,
                             q.driverRequired, q.promoCode, q.now)]

\* POST /bookings/calculate-price: the request that was drawn is answered.
CalculateBookingPrice ==
    /\ quote.pc = "asked"
    /\ quote' = [quote EXCEPT !.pc = "answered",
                              !.reply = CalculateBookingPriceRun(quote)]
    /\ UNCHANGED <<bookings, payments, reqs, promoUse, avail, orders, elapsed>>

\* The rate cards, durations, modes, promotion codes and clock readings of the
\* price requests.
MaxDays == 31
RateCards ==
    [baseDaily : {1000, 1003}, weeklyDiscountPercent : {0, 10},
     monthlyDiscountPercent : {0, 20}, extraHourCharge : {0, 60},
     depositAmount : {0, 2000}]
\* The rate card of a vehicle with no discount, extra-hour charge or deposit.
PlainCard ==
    [baseDaily |-> 1000, weeklyDiscountPercent |-> 0, monthlyDiscountPercent |-> 0,
     extraHourCharge |-> 0, depositAmount |-> 0]
DurationInputs ==
    {Hours(24 * d + h) + m : d \in 0..MaxDays, h \in {0, 1, 23}, m \in {0, 1}}
        \cup {0 - Hours(1), 0 - Hours(25)}
PromoInputs == DOMAIN PromoCodes \cup {"none", "NOPE"}
QuoteClock == {At(0, 0), At(0, 0) + 1}

InitPrice ==
    /\ bookings = [b \in BookingIds |-> NewBooking(b, "v1", WindowA, "cancelled",
                                                   EarlyCancellation)]
    /\ payments = [p \in PaymentIds |-> NoPayment]
    /\ reqs = [r \in RequestIds |-> IdleRequest]
    /\ promoUse = NoPromoUse
    /\ avail = NoAvail
    /\ orders = [o \in OrderIds |-> IdleOrder]
    /\ elapsed = 0
    /\ \E pricing \in RateCards, minutes \in DurationInputs,
          bookingType \in {"self-drive", "with-driver"},
          promoCode \in PromoInputs, now \in QuoteClock :
       \E hasFields \in BOOLEAN, found \in BOOLEAN, driverRequired \in BOOLEAN :
          /\ (hasFields /\ found) \/ (pricing = PlainCard /\ promoCode = "none")
          /\ quote = [pc |-> "asked", hasFields |-> hasFields, found |-> found,
                      pricing |-> pricing, duration |-> minutes,
                      bookingType |-> bookingType,
                      driverRequired |-> driverRequired,
                      promoCode |-> promoCode,
                      now |-> now, reply |-> "none"]

NextPrice == CalculateBookingPrice

SpecPrice == InitPrice /\ [][NextPrice]_vars

----------------------------------------------------------------------------
(* Properties of createBooking and of the availability query (SpecCreate) *)

\* A createBooking call whose body passed validation and named a stored vehicle.
Admitted(r) ==
    /\ reqs[r].pc # "idle"
    /\ reqs[r].reply.error \notin {"ValidationError", "NotFound"}

\* An active stored reservation of the request's vehicle intersects its window.
ActiveConflict(r) ==
    \E b \in BookingIds :
        /\ bookings[b].vehicle = reqs[r].vehicle
        /\ bookings[b].status \in ActiveStatuses
        /\ bookings[b].s < reqs[r].e
        /\ bookings[b].e > reqs[r].s

\* A block of the request's vehicle intersects its window (the interval test
\* of the reservations, applied to the blocks).
BlackoutConflict(r) ==
    \E block \in Vehicles[reqs[r].vehicle].availabilityBlocks :
        Overlaps(block.start, block.end, reqs[r].s, reqs[r].e)

\* C1: of two createBooking requests for one vehicle with overlapping windows,
\* processed in any interleaving, at most one succeeds and the other is
\* answered VehicleUnavailable.
C1_AtMostOneCreated ==
    \A r \in RequestIds : \A q \in RequestIds \ {r} :
        (/\ reqs[r].pc = "done" /\ reqs[q].pc = "done"
         /\ Admitted(r) /\ Admitted(q)
         /\ reqs[r].vehicle = reqs[q].vehicle
         /\ reqs[r].s < reqs[r].e /\ reqs[q].s < reqs[q].e
         /\ Overlaps(reqs[r].s, reqs[r].e, reqs[q].s, reqs[q].e))
        => /\ ~ (reqs[r].reply.status = 201 /\ reqs[q].reply.status = 201)
           /\ \/ reqs[r].reply.error = "VehicleUnavailable"
              \/ reqs[q].reply.error = "VehicleUnavailable"

\* C3: a request conflicts with a stored active reservation [s, e) of its
\* vehicle exactly when s < we and e > ws for the requested window [ws, we):
\* it is answered VehicleUnavailable in that case and in no other.
C3_HalfOpenConflict ==
    \A r \in RequestIds :
        Admitted(r) =>
            (reqs[r].reply.error = "VehicleUnavailable" <=> ActiveConflict(r))

\* C4: a createBooking request for a stored, active vehicle, with pickup
\* before dropoff and a window that no active reservation and no block of
\* the vehicle intersects, is answered 201 once it has run.
C4_CreateSucceeds ==
    \A r \in RequestIds :
        (/\ reqs[r].pc = "done"
         /\ Admitted(r)
         /\ Vehicles[reqs[r].vehicle].isActive
         /\ reqs[r].s < reqs[r].e
         /\ ~ ActiveConflict(r)
         /\ ~ BlackoutConflict(r))
        => reqs[r].reply.status = 201

----------------------------------------------------------------------------
(* Properties of the reservation lifecycle (Spec) *)

\* C2: in every reachable state no two active reservations of one vehicle have
\* intersecting windows.
C2_NoActiveOverlap ==
    \A x \in BookingIds : \A y \in BookingIds : ~ ActiveOverlap(bookings, x, y)

\* C5: no step moves a reservation out of cancelled, completed or refunded,
\* except from cancelled or completed to refunded.
C5_TerminalOneWay ==
    [][\A b \in BookingIds :
          bookings[b].status \in TerminalStatuses
          => \/ bookings'[b].status = bookings[b].status
             \/ /\ bookings[b].status \in {"cancelled", "completed"}
                /\ bookings'[b].status = "refunded"]_vars

\* C7: a step that makes a reservation confirmed starts from pending_payment
\* and is a payment confirmation: it leaves a payment of that reservation
\* successful.
C7_ConfirmedOnlyByPayment ==
    [][\A b \in BookingIds :
          (bookings[b].status # "confirmed" /\ bookings'[b].status = "confirmed")
          => /\ bookings[b].status = "pending_payment"
             /\ \E p \in PaymentIds :
                   /\ payments'[p].exists
                   /\ payments'[p].booking = b
                   /\ payments'[p].status = "success"
                   /\ payments[p].status # "success"]_vars

\* The customer owning the stored reservations, and the admin.
Owner == [role |-> "customer", id |-> "c1"]
Admin == [role |-> "admin", id |-> "a1"]

\* C6: a cancel request for a reservation that is neither pending_payment nor
\* confirmed fails and leaves both collections as they are, on the
\* customer/vendor route and on the admin route; when the request passes the
\* checks that come before the status check (the caller may cancel the
\* reservation, the admin gave a reason) the failure is InvalidStateTransition.
C6_CancelRejected ==
    \A b \in BookingIds :
        bookings[b].status \notin {"pending_payment", "confirmed"}
        => /\ \A pr \in Principals, now \in Clock, notifyOk \in BOOLEAN :
                LET run == CancelBookingRun(b, pr, now, notifyOk)
                IN  /\ run.reply.status >= 400
                    /\ run.bookings = bookings
                    /\ run.payments = payments
                    /\ (pr.role # "customer" \/ pr.id = bookings[b].customer)
                       => run.reply.error = "InvalidStateTransition"
           /\ \A pr \in Principals, hasReason \in BOOLEAN :
              \A amt \in RefundInputs(b), notifyOk \in BOOLEAN :
                LET run == CancelBookingAdminRun(b, pr, hasReason, amt, notifyOk)
                IN  /\ run.reply.status >= 400
                    /\ run.bookings = bookings
                    /\ run.payments = payments
                    /\ (pr.role = "admin" /\ hasReason)
                       => run.reply.error = "InvalidStateTransition"

\* C6 witness: b1 has been completed, and its owner's and the admin's cancel
\* requests are answered InvalidStateTransition.
C6_Witness ==
    /\ bookings["b1"].status = "completed"
    /\ CancelBookingRun("b1", Owner, At(11, 0), TRUE).reply.error
          = "InvalidStateTransition"
    /\ CancelBookingAdminRun("b1", Admin, TRUE, 0, TRUE).reply.error
          = "InvalidStateTransition"

\* C8: a successful cancelBooking charges, and records on the reservation,
\* half the base amount when less than 24 hours remain until pickup, a
\* quarter when at least 24 and less than 48 hours remain, and nothing when
\* 48 hours or more remain.
C8_CancellationFeeTiers ==
    \A b \in BookingIds, pr \in Principals, now \in Clock, notifyOk \in BOOLEAN :
        LET run == CancelBookingRun(b, pr, now, notifyOk)
            base == bookings[b].priceBreakdown.baseAmount
            left == bookings[b].s - now
            fee == run.reply.fee
        IN  run.reply.status = 200
            => /\ run.bookings[b].status = "cancelled"
               /\ run.bookings[b].cancellation.fee = fee
               /\ left < 24 * 60 => 2 * fee = base
               /\ (left >= 24 * 60 /\ left < 48 * 60) => 4 * fee = base
               /\ left >= 48 * 60 => fee = 0

\* C8 witness: b1 was cancelled by its customer between 24 and 48 hours ahead
\* and carries a quarter of its base amount as the fee.
C8_Witness ==
    /\ bookings["b1"].status = "cancelled"
    /\ bookings["b1"].cancellation.by = "customer"
    /\ bookings["b1"].cancellation.fee > 0
    /\ 4 * bookings["b1"].cancellation.fee = bookings["b1"].priceBreakdown.baseAmount

\* C9: every successful cancellation, by cancelBooking or by cancelBookingAdmin,
\* returns as the refund amount the reservation's totalPayable less the fee it
\* records on the reservation.
C9_RefundIsTotalMinusFee ==
    \A b \in BookingIds, pr \in Principals :
        /\ \A now \in Clock, notifyOk \in BOOLEAN :
              LET run == CancelBookingRun(b, pr, now, notifyOk)
              IN  run.reply.status = 200
                  => run.reply.refund
                       = bookings[b].priceBreakdown.totalPayable
                           - run.bookings[b].cancellation.fee
        /\ \A hasReason \in BOOLEAN, notifyOk \in BOOLEAN :
           \A amt \in RefundInputs(b) :
              LET run == CancelBookingAdminRun(b, pr, hasReason, amt, notifyOk)
              IN  run.reply.status = 200
                  => run.reply.refund
                       = bookings[b].priceBreakdown.totalPayable
                           - run.bookings[b].cancellation.fee

----------------------------------------------------------------------------
(* Properties of calculateBookingPrice (SpecPrice) *)

\* C10: for a window whose dropoff is not before its pickup, the answer bills
\* hours = ceil(duration / 1h) and days = ceil(hours / 24), and its base amount
\* is dailyRate * 30 * (1 - monthlyDiscountPct) when days >= 30 and a monthly
\* discount is configured, otherwise dailyRate * 7 * (1 - weeklyDiscountPct)
\* when days >= 7 and a weekly discount is configured, otherwise
\* dailyRate * days; plus (hours mod 24) * extraHourCharge.  Amounts are
\* compared multiplied by 100, the percentages being whole numbers.
C10_BaseAmountTiers ==
    (quote.pc = "answered" /\ quote.reply.status = 200 /\ quote.duration >= 0)
    => LET hours == (quote.duration + 59) \div 60
           days == (hours + 23) \div 24
           card == quote.pricing
           tier100 ==
               IF days >= 30 /\ card.monthlyDiscountPercent > 0
               THEN card.baseDaily * 30 * (100 - card.monthlyDiscountPercent)
               ELSE IF days >= 7 /\ card.weeklyDiscountPercent > 0
               THEN card.baseDaily * 7 * (100 - card.weeklyDiscountPercent)
               ELSE card.baseDaily * days * 100
           base100 == tier100 + (hours % 24) * card.extraHourCharge * 100
       IN  /\ quote.reply.priceBreakdown.duration.hours = hours
           /\ quote.reply.priceBreakdown.duration.days = days
           /\ quote.reply.priceBreakdown.baseAmount = base100 * (Rupee \div 100)

\* C10 witness: exactly 7 days at 1000 a day with a weekly discount of 10% and
\* no monthly discount are answered with a base amount of 6300.
C10_Witness ==
    /\ quote.pc = "answered"
    /\ quote.duration = Hours(7 * 24)
    /\ quote.pricing.baseDaily = 1000
    /\ quote.pricing.weeklyDiscountPercent = 10
    /\ quote.pricing.monthlyDiscountPercent = 0
    /\ quote.reply.status = 200
    /\ quote.reply.priceBreakdown.duration.days = 7
    /\ quote.reply.priceBreakdown.baseAmount = 6300 * Rupee

\* x and y differ by half a rupee at most: y is x rounded to a whole rupee
\* when y is a whole number of rupees.
WithinHalfRupee(x, y) == 2 * Abs(x - y) <= Rupee

\* C11: the taxes of a breakdown are 18% of (base amount + driver amount)
\* rounded to the nearest whole rupee, whatever the deposit; without a
\* promotion the total is base + driver + 18% of (base + driver) + deposit,
\* rounded likewise, so the deposit enters the total untaxed.
C11_TaxesAndDeposit ==
    (quote.pc = "answered" /\ quote.reply.status = 200)
    => LET pb == quote.reply.priceBreakdown
           taxed == pb.baseAmount + pb.driverAmount
           exact == (taxed \div 100) * 18
       IN  /\ pb.taxes % Rupee = 0
           /\ WithinHalfRupee(exact, pb.taxes)
           /\ pb.deposit = quote.pricing.depositAmount * Rupee
           /\ quote.promoCode = "none"
              => /\ pb.totalPayable % Rupee = 0
                 /\ WithinHalfRupee(taxed + exact + pb.deposit, pb.totalPayable)

\* C11 witness: 3 days at 1000 a day, self-drive, no discount, deposit or
\* promotion, are answered base 3000, taxes 540 and total 3540.
C11_Witness ==
    /\ quote.pc = "answered"
    /\ quote.reply.status = 200
    /\ quote.pricing = PlainCard
    /\ quote.duration = Hours(3 * 24)
    /\ quote.bookingType = "self-drive"
    /\ quote.promoCode = "none"
    /\ quote.reply.priceBreakdown.baseAmount = 3000 * Rupee
    /\ quote.reply.priceBreakdown.taxes = 540 * Rupee
    /\ quote.reply.priceBreakdown.totalPayable = 3540 * Rupee

\* The promotion named by the request is one the pricing rules apply: it is
\* stored, active, within its validity window at the time of the request, and
\* the base amount answered reaches its minimum booking amount.
PromotionApplies ==
    /\ quote.promoCode \in DOMAIN PromoCodes
    /\ LET promo == PromoCodes[quote.promoCode]
       IN  /\ promo.isActive
           /\ promo.validFrom <= quote.now
           /\ quote.now <= promo.validTill
           /\ promo.minBookingAmount * Rupee
                <= quote.reply.priceBreakdown.baseAmount

C13_TotalNeverNegative ==
    (quote.pc = "answered" /\ quote.reply.status = 200 /\ quote.duration > 0)
    => quote.reply.priceBreakdown.totalPayable >= 0

\* C14: the breakdown answered for a request with a window of positive
\* duration is the one the same request (rate card, window, mode, promotion)
\* is answered at any other time.
C14_Deterministic ==
    (quote.pc = "answered" /\ quote.reply.status = 200 /\ quote.duration > 0)
    => \A now \in QuoteClock :
          CalculateBookingPriceRun([quote EXCEPT !.now = now]).priceBreakdown
             = quote.reply.priceBreakdown

----------------------------------------------------------------------------
(* Properties of the handlers' notifications (Spec) *)

\* C15: a handler that has persisted a change to a reservation (a status
\* update, a cancellation) answers success for it even when creating the
\* notification fails.
C15_NotificationNeverFails ==
    \A b \in BookingInputs, pr \in Principals :
        /\ \A st \in StatusInputs :
              LET run == UpdateBookingStatusRun(b, pr, st, FALSE)
              IN  run.bookings # bookings => run.reply.status = 200
        /\ \A now \in Clock :
              LET run == CancelBookingRun(b, pr, now, FALSE)
              IN  run.bookings # bookings => run.reply.status = 200
        /\ \A st \in StatusInputs :
              LET run == AdminUpdateBookingStatusRun(b, pr, st, FALSE)
              IN  run.bookings # bookings => run.reply.status = 200
        /\ \A hasReason \in BOOLEAN : \A amt \in RefundInputs(b) :
              LET run == CancelBookingAdminRun(b, pr, hasReason, amt, FALSE)
              IN  run.bookings # bookings => run.reply.status = 200

----------------------------------------------------------------------------
(* Properties of createBooking's checks (SpecCreate) *)

\* C16: a createBooking request for a stored vehicle whose isActive flag is
\* false is turned down by the checks that precede pricing: it is answered a
\* client error and goes no further.
C16_InactiveVehicleRejected ==
    \A r \in RequestIds :
        (/\ Admitted(r)
         /\ ~ Vehicles[reqs[r].vehicle].isActive)
        => /\ reqs[r].pc = "done"
           /\ reqs[r].reply.status \in 400 .. 499

\* C17: a createBooking request whose window a block of its vehicle
\* intersects is answered VehicleUnavailable, whatever the stored
\* reservations are.
C17_BlackoutRejected ==
    \A r \in RequestIds :
        (/\ reqs[r].pc = "done"
         /\ Admitted(r)
         /\ BlackoutConflict(r))
        => reqs[r].reply.error = "VehicleUnavailable"

----------------------------------------------------------------------------
(* Properties of calculateBookingPrice's validation (SpecPrice) *)

\* C19: a price request that names a stored vehicle and carries both
\* datetimes, with the dropoff not after the pickup, is answered the
\* InvalidWindow error and no price breakdown.
C19_InvalidWindow ==
    (/\ quote.pc = "answered"
     /\ quote.hasFields
     /\ quote.found
     /\ quote.duration <= 0)
    => /\ quote.reply.error = "InvalidWindow"
       /\ quote.reply.priceBreakdown = NoBreakdown

----------------------------------------------------------------------------
(* Properties of the completion of a rental (Spec) *)

\* C20: a step that leaves a reservation completed which was not completed
\* before starts from in_progress; and a completeBooking request for a
\* reservation in any other status fails and returns the collections as
\* they are.
C20_CompletedOnlyFromInProgress ==
    [][/\ \A b \in BookingIds :
             (bookings'[b].status = "completed" /\ bookings[b].status # "completed")
             => bookings[b].status = "in_progress"
       /\ \A b \in BookingInputs, pr \in Principals :
             bookings[b].status # "in_progress"
             => LET run == CompleteBookingRun(b, pr, NoPenalties)
                IN  /\ run.reply.status >= 400
                    /\ run.bookings = bookings
                    /\ run.payments = payments]_vars

----------------------------------------------------------------------------
(* Properties of the settlement (SpecSettle) *)

\* C21: a completeBooking request for an in_progress reservation succeeds and
\* leaves it completed when the caller is the vendor owning the reservation
\* or an admin, and fails, changing nothing, for every other caller.
C21_WhoMayComplete ==
    \A b \in SettledBookings :
        bookings[b].status = "in_progress"
        => \A pr \in Principals, pen \in PenaltyInputs :
              LET run == CompleteBookingRun(b, pr, pen)
              IN  IF \/ pr.role = "admin"
                     \/ (pr.role = "vendor" /\ pr.id = bookings[b].vendor)
                  THEN /\ run.reply.status = 200
                       /\ run.bookings[b].status = "completed"
                  ELSE /\ run.reply.status >= 400
                       /\ run.bookings = bookings
                       /\ run.payments = payments

C23_PriceBreakdownKept ==
    [][\A b \in BookingIds :
          bookings'[b].priceBreakdown = bookings[b].priceBreakdown]_vars

\* C23 witness: b2 was paid, completed with a late fee and then refunded, and
\* carries the price breakdown it was created with.
C23_Witness ==
    /\ bookings["b2"].status = "refunded"
    /\ bookings["b2"].penalties.lateFee > 0
    /\ bookings["b2"].depositRefund.set
    /\ bookings["b2"].priceBreakdown = PriceOf("b2")

\* C24: a completeBooking request by the owning vendor for an in_progress
\* reservation stores the penalties of its body on the reservation and
\* answers the final amount totalPayable + lateFee + damageDeduction; when
\* that differs from totalPayable it creates exactly one adjustment
\* transaction for the reservation, of the difference, and otherwise none.
C24_FinalSettlement ==
    \A b \in SettledBookings, pr \in Principals, pen \in PenaltyInputs :
        LET run == CompleteBookingRun(b, pr, pen)
            totalPayable == bookings[b].priceBreakdown.totalPayable
            extra == pen.lateFee + pen.damageDeduction
        IN  (/\ bookings[b].status = "in_progress"
             /\ pr.role = "vendor"
             /\ pr.id = bookings[b].vendor)
            => /\ run.reply.status = 200
               /\ run.bookings[b].status = "completed"
               /\ run.bookings[b].penalties = pen
               /\ run.bookings[b].priceBreakdown = bookings[b].priceBreakdown
               /\ run.reply.finalAmount = totalPayable + extra
               /\ extra # 0
                  => run.created =
                        <<[type |-> "adjustment", relatedBooking |-> b,
                           referenceId |-> "none", amount |-> extra]>>
               /\ extra = 0 => run.created = <<>>

\* C24 witness: b2 has been completed with a late fee and a damage deduction
\* that cancel out.
C24_Witness ==
    /\ bookings["b2"].status = "completed"
    /\ bookings["b2"].penalties.set
    /\ bookings["b2"].penalties.lateFee + bookings["b2"].penalties.damageDeduction = 0

\* C25: a step that leaves completed a reservation with a deposit which was
\* not completed before leaves on it a deposit refund in status pending, of
\* the amount of the deposit.
C25_DepositRefundPending ==
    [][\A b \in BookingIds :
          (/\ bookings'[b].status = "completed"
           /\ bookings[b].status # "completed"
           /\ bookings[b].priceBreakdown.deposit > 0)
          => /\ bookings'[b].depositRefund.set
             /\ bookings'[b].depositRefund.status = "pending"
             /\ bookings'[b].depositRefund.amount
                   = bookings[b].priceBreakdown.deposit]_vars

----------------------------------------------------------------------------
(* Properties of the promotion and the driver charge (SpecPrice) *)

\* C26: a price request for a stored vehicle and a window of positive
\* duration is answered 200 whatever its promotion code, and with a discount
\* other than 0 only when the code names a promotion that is active, whose
\* validity window holds the current time and whose minimum booking amount
\* the booking meets (at the least with its total before the discount).
C26_PromoOnlyWhenValid ==
    (/\ quote.pc = "answered"
     /\ quote.hasFields
     /\ quote.found
     /\ quote.duration > 0)
    => /\ quote.reply.status = 200
       /\ quote.reply.priceBreakdown.discount # 0
          => /\ quote.promoCode \in DOMAIN PromoCodes
             /\ LET promo == PromoCodes[quote.promoCode]
                    pb == quote.reply.priceBreakdown
                IN  /\ promo.isActive
                    /\ promo.validFrom <= quote.now
                    /\ quote.now <= promo.validTill
                    /\ promo.minBookingAmount * Rupee
                         <= pb.baseAmount + pb.driverAmount + pb.taxes + pb.deposit

\* C27: the driver amount answered is the per-hour driver rate times the
\* billed hours when the booking type is with-driver or the request asks for
\* a driver (driverRequired), and 0 otherwise.
C27_DriverAmount ==
    (quote.pc = "answered" /\ quote.reply.status = 200)
    => LET pb == quote.reply.priceBreakdown
       IN  pb.driverAmount =
              IF quote.bookingType = "with-driver" \/ quote.driverRequired
              THEN DriverRatePerHour * Rupee * pb.duration.hours
              ELSE 0

\* C27 as stated: the driver amount is the per-hour driver rate times the
\* billed hours when the booking type is with-driver, and 0 when it is
\* self-drive.
C27_DriverAmountByMode ==
    (quote.pc = "answered" /\ quote.reply.status = 200)
    => LET pb == quote.reply.priceBreakdown
       IN  pb.driverAmount =
              IF quote.bookingType = "with-driver"
              THEN DriverRatePerHour * Rupee * pb.duration.hours
              ELSE 0

\* C27 witness: a self-drive request of 25 hours that asks for a driver is
\* answered a driver amount of 2500.
C27_Witness ==
    /\ quote.pc = "answered"
    /\ quote.reply.status = 200
    /\ quote.bookingType = "self-drive"
    /\ quote.driverRequired
    /\ quote.reply.priceBreakdown.duration.hours = 25
    /\ quote.reply.priceBreakdown.driverAmount = 2500 * Rupee


----------------------------------------------------------------------------
(* Promotions and the availability query at creation (SpecCreate) *)

\* C28: a createBooking request with an applicable promotion, for a stored,
\* active vehicle and a free window, creates the reservation and consumes
\* the promotion: the usage counter of each promotion is the number of
\* reservations created with it.
C28_PromotionConsumed ==
    /\ \A r \in RequestIds :
          (/\ reqs[r].pc = "done"
           /\ Admitted(r)
           /\ Vehicles[reqs[r].vehicle].isActive
           /\ reqs[r].s < reqs[r].e
           /\ ~ ActiveConflict(r)
           /\ ~ BlackoutConflict(r)
           /\ reqs[r].promoCode \in PromoCodeIds)
          => /\ reqs[r].reply.status = 201
             /\ promoUse[reqs[r].promoCode] >= 1
    /\ \A c \in PromoCodeIds :
          promoUse[c] = Cardinality({r \in RequestIds :
                                        /\ reqs[r].pc = "done"
                                        /\ reqs[r].reply.status = 201
                                        /\ reqs[r].promoCode = c})

\* C30: a createBooking request whose window intersects a stored reservation
\* of its vehicle in an active status, pending_payment included, is answered
\* VehicleUnavailable, and one whose window intersects only reservations in
\* a terminal status is not.
C30_PendingPaymentBlocks ==
    \A r \in RequestIds :
        Admitted(r) =>
            LET overlapping ==
                    {b \in BookingIds :
                        /\ bookings[b].vehicle = reqs[r].vehicle
                        /\ Overlaps(bookings[b].s, bookings[b].e, reqs[r].s, reqs[r].e)}
            IN  /\ (\E b \in overlapping : bookings[b].status \in ActiveStatuses)
                      => reqs[r].reply.error = "VehicleUnavailable"
                /\ (\A b \in overlapping : bookings[b].status \in TerminalStatuses)
                      => reqs[r].reply.error # "VehicleUnavailable"


----------------------------------------------------------------------------
(* The cancellation and penalty records (SpecSettle) *)

\* C29: in every reachable state a reservation carries a cancellation record
\* only if its status is cancelled or refunded, and a penalty record only if
\* its status is completed or refunded.
C29_RecordsMatchStatus ==
    \A b \in BookingIds :
        /\ bookings[b].cancellation.set
              => bookings[b].status \in {"cancelled", "refunded"}
        /\ bookings[b].penalties.set
              => bookings[b].status \in {"completed", "refunded"}

----------------------------------------------------------------------------
(* Properties of the availability queries (SpecAvail) *)

\* C31: an availability query that no reservation stands against answers
\* unavailable exactly when a block [bs, be) of the vehicle and the window
\* [ws, we) satisfy bs < we and be > ws; a block that only touches the window
\* leaves the vehicle available.
C31_BlocksHalfOpen ==
    (/\ avail.pc = "answered"
     /\ avail.status = 200
     /\ IsVehicleAvailable(avail.vehicle, avail.s, avail.e))
    => (avail.available
          <=> ~ \E block \in Vehicles[avail.vehicle].availabilityBlocks :
                   block.start < avail.e /\ block.end > avail.s)

----------------------------------------------------------------------------
(* The new-booking notification (SpecCreate) *)

\* C32: a createBooking request for a stored, active vehicle and a free
\* window has, once it has run, persisted its reservation and emitted the
\* new-booking notification of it: no reservation stays without its event.
C32_CreatedAndNotified ==
    \A r \in RequestIds :
        (/\ reqs[r].pc = "done"
         /\ Admitted(r)
         /\ Vehicles[reqs[r].vehicle].isActive
         /\ reqs[r].s < reqs[r].e
         /\ ~ ActiveConflict(r)
         /\ ~ BlackoutConflict(r))
        => reqs[r].notified

----------------------------------------------------------------------------
(* The unpaid reservation as time passes (SpecTimeout) *)

\* C33: a reservation does not stay in pending_payment for ever: as time
\* passes it leaves that status, cancelled by the system if by nobody else.
C33_UnpaidReleased ==
    \A b \in BookingIds :
        (bookings[b].status = "pending_payment")
            ~> (bookings[b].status # "pending_payment")


----------------------------------------------------------------------------
(* Occupying reservations (Spec) *)

\* C34: in every reachable state no two reservations of one vehicle that are
\* both confirmed, checked_out or in_progress have intersecting windows.
C34_NoOccupyingOverlap ==
    \A x \in BookingIds : \A y \in BookingIds \ {x} :
        (/\ bookings[x].vehicle = bookings[y].vehicle
         /\ bookings[x].status \in {"confirmed", "checked_out", "in_progress"}
         /\ bookings[y].status \in {"confirmed", "checked_out", "in_progress"})
        => ~ Overlaps(bookings[x].s, bookings[x].e, bookings[y].s, bookings[y].e)


----------------------------------------------------------------------------
(* Refunded amounts (SpecSettle) *)

----------------------------------------------------------------------------
(* Payments of a reservation (SpecOrder) *)

\* C36: in every reachable state a reservation has at most one payment, also
\* when two createPaymentOrder calls for it run with their steps interleaved.
C36_OnePaymentPerBooking ==
    \A b \in BookingIds : Cardinality(PaymentsOf(b)) <= 1


----------------------------------------------------------------------------
(* Payment transactions (Spec) *)

----------------------------------------------------------------------------
(* Who may cancel (Spec) *)

\* C38: a cancelBooking request succeeds, or changes the reservation, only
\* when the caller is the customer owning the reservation, the vendor owning
\* it, or an admin.
C38_WhoMayCancel ==
    \A b \in BookingIds, pr \in Principals, now \in Clock, notifyOk \in BOOLEAN :
        LET run == CancelBookingRun(b, pr, now, notifyOk)
        IN  (run.reply.status = 200 \/ run.bookings # bookings)
            => \/ pr.role = "admin"
               \/ (pr.role = "customer" /\ pr.id = bookings[b].customer)
               \/ (pr.role = "vendor" /\ pr.id = bookings[b].vendor)

----------------------------------------------------------------------------
(* Relations between the amounts of a price (SpecPrice) *)

\* C39: for one rate card the base amount does not decrease with the
\* duration: the base amount answered for a window is at least the base
\* amount of every window with fewer billed hours.
C39_BaseAmountMonotone ==
    (quote.pc = "answered" /\ quote.reply.status = 200 /\ quote.duration > 0)
    => \A minutes \in DurationInputs :
          (minutes > 0 /\ DurationHours(minutes) < DurationHours(quote.duration))
          => BaseAmount(quote.pricing, minutes)
                <= quote.reply.priceBreakdown.baseAmount

\* C40: the values placed in the price breakdown of a window of positive
\* duration add up:
\* totalPayable = baseAmount + driverAmount + taxes + deposit - discount.
C40_BreakdownAddsUp ==
    (quote.pc = "answered" /\ quote.reply.status = 200 /\ quote.duration > 0)
    => LET pb == quote.reply.priceBreakdown
       IN  pb.totalPayable =
              pb.baseAmount + pb.driverAmount + pb.taxes + pb.deposit - pb.discount

====
